---- MODULE Spec2Model ----
(***************************************************************************)
(* DictionaryBlockInputStream<DictionaryType, Key>                         *)
(* (dbms/src/Dictionaries/DictionaryBlockInputStream.h).                   *)
(*                                                                         *)
(* The stream is built either from a sequence of surrogate ids or from a   *)
(* sequence of serialized composite keys; getBlock(start, length) turns    *)
(* one window of that input into a Block by asking the dictionary for one  *)
(* column per requested attribute.                                         *)
(*                                                                         *)
(* Columns are sequences of values, a ColumnWithTypeAndName is a record    *)
(* [name, type, column], a Block is the sequence of such records it was    *)
(* built from.  Byte spans are sequences of naturals below 256.            *)
(***************************************************************************)
EXTENDS Integers, Sequences, FiniteSets, TLC

(* ------------------------------------------------------------------ *)
(* Bounds of the exploration                                           *)
(* ------------------------------------------------------------------ *)

\* largest number of ids / key spans handed to a constructor
MaxRows == 2

\* largest number of entries of the column_names argument
MaxNames == 2

(* ------------------------------------------------------------------ *)
(* The dictionaries the stream is instantiated over                    *)
(* ------------------------------------------------------------------ *)

\* DictionaryAttribute records: name, declared type, underlying type tag
Attr(n, t) == [name |-> n, type |-> t, underlying_type |-> t]

\* structure.attributes, shared by both dictionaries: one numeric, one string
Attributes == << Attr("x", "Int32"), Attr("s", "String") >>

\* structure.key of the composite-key dictionary
KeyFields == << Attr("k1", "UInt8"), Attr("k2", "String") >>

\* structure of a dictionary addressed by surrogate id (structure.id is set,
\* structure.key is not)
IdStructure ==
    [has_id |-> TRUE, id_name |-> "id", has_key |-> FALSE, key |-> << >>,
     attributes |-> Attributes]

\* structure of a dictionary addressed by composite key (structure.key is set,
\* structure.id is not)
KeyStructure ==
    [has_id |-> FALSE, id_name |-> "", has_key |-> TRUE, key |-> KeyFields,
     attributes |-> Attributes]

\* names a caller may put into column_names; "k1" and "k2" are in no id
\* structure and "id" is in no key structure
NameUniverse == {"id", "k1", "k2", "x", "s"}

\* values of Key the ids argument is drawn from
IdDomain == {10, 20}

\* what a read past the end of the ids array may find there
GarbageIds == {77}

\* failures the dictionary's bulk lookup may raise
DictErrors == {"DictionaryUnavailable"}

\* the dictionary's stored value of attribute attr for surrogate id `id`
\* (0 / empty string is the attribute's null value for an unknown id)
DictGetById(attr, id) ==
    IF attr = "x"
    THEN CASE id = 10 -> 100
           [] id = 20 -> -5
           [] OTHER -> 0
    ELSE IF id \in IdDomain THEN << 115, id >> ELSE << >>

\* the dictionary's stored value of attribute attr for the composite key `row`
\* (row[j] is the value of key sub-field j)
DictGetByKey(attr, row) ==
    IF attr = "x"
    THEN row[1] * 100 + Len(row[2])
    ELSE row[2] \o << row[1] >>

(* ------------------------------------------------------------------ *)
(* Arena serialization of one key sub-field                            *)
(* ------------------------------------------------------------------ *)

\* sizeof(size_t): width of the length prefix of a serialized string
StringSizeWidth == 8

\* sizeof(T) of the fixed-width underlying types
TypeWidth(t) ==
    CASE t \in {"UInt8", "Int8"} -> 1
      [] t \in {"UInt16", "Int16"} -> 2
      [] t \in {"UInt32", "Int32", "Float32"} -> 4
      [] t \in {"UInt64", "Int64", "Float64"} -> 8

\* little-endian value of a byte sequence
RECURSIVE LittleEndian(_)
LittleEndian(bytes) ==
    IF bytes = << >> THEN 0 ELSE Head(bytes) + 256 * LittleEndian(Tail(bytes))

\* little-endian bytes of v, width w
RECURSIVE ToBytes(_, _)
ToBytes(v, w) ==
    IF w = 0 THEN << >> ELSE << v % 256 >> \o ToBytes(v \div 256, w - 1)

\* IColumn::serializeValueIntoArena: the bytes one value of a column of
\* underlying type t occupies in a serialized key
serializeValueIntoArena(t, value) ==
    IF t = "String"
    THEN ToBytes(Len(value), StringSizeWidth) \o value
    ELSE ToBytes(value, TypeWidth(t))

\* IColumn::deserializeAndInsertFromArena(pos): reads one value of underlying
\* type t at cursor ptr (an offset into span) and returns the cursor after it.
\* The call is given the cursor only, not the span's end: a read that leaves
\* the span is reported as overread and its value is not defined.
deserializeAndInsertFromArena(t, span, ptr) ==
    IF t = "String"
    THEN IF ptr + StringSizeWidth > Len(span)
         THEN [overread |-> TRUE, value |-> << >>, ptr |-> ptr + StringSizeWidth]
         ELSE LET n == LittleEndian(SubSeq(span, ptr + 1, ptr + StringSizeWidth))
                  p == ptr + StringSizeWidth
              IN IF p + n > Len(span)
                 THEN [overread |-> TRUE, value |-> << >>, ptr |-> p + n]
                 ELSE [overread |-> FALSE, value |-> SubSeq(span, p + 1, p + n),
                       ptr |-> p + n]
    ELSE IF ptr + TypeWidth(t) > Len(span)
         THEN [overread |-> TRUE, value |-> 0, ptr |-> ptr + TypeWidth(t)]
         ELSE [overread |-> FALSE,
               value |-> LittleEndian(SubSeq(span, ptr + 1, ptr + TypeWidth(t))),
               ptr |-> ptr + TypeWidth(t)]

\* the serialized key of the composite key <<k1, k2>>
RECURSIVE SerializeKey(_, _, _)
SerializeKey(fields, row, j) ==
    IF j > Len(fields) THEN << >>
    ELSE serializeValueIntoArena(fields[j].underlying_type, row[j])
            \o SerializeKey(fields, row, j + 1)

\* well-formed spans: (1,"a") and (2,"bb")
GoodSpans ==
    { SerializeKey(KeyFields, << 1, << 97 >> >>, 1),
      SerializeKey(KeyFields, << 2, << 98, 98 >> >>, 1) }

\* malformed spans: a stray trailing byte, a string cut short, a missing
\* length prefix
BadSpans ==
    { SerializeKey(KeyFields, << 1, << 97 >> >>, 1) \o << 0 >>,
      SubSeq(SerializeKey(KeyFields, << 2, << 98, 98 >> >>, 1), 1, 10),
      << 1 >> }

\* the spans the keys argument is drawn from
SpanDomain == GoodSpans \cup BadSpans

\* all sequences over S of length at most n
SeqsUpTo(S, n) == UNION { [1..k -> S] : k \in 0..n }

(* ------------------------------------------------------------------ *)
(* Columns                                                             *)
(* ------------------------------------------------------------------ *)

ColumnWithTypeAndName(col, t, n) == [name |-> n, type |-> t, column |-> col]

\* the set std::unordered_set<std::string> names(column_names.begin(), ...)
NameSet(column_names) == { column_names[i] : i \in DOMAIN column_names }

\* IColumn::cut(start, length) on a column that holds the rows
cut(column, start, length) == SubSeq(column, start + 1, start + length)

\* IColumn::cut refuses a window that leaves the column
cutOutOfBound(column, start, length) == start + length > Len(column)

\* Block::rows(): a block knows its rows only through its columns
rows(columns) == IF columns = << >> THEN 0 ELSE Len(columns[1].column)

(* ------------------------------------------------------------------ *)
(* fillKeyColumns                                                      *)
(* ------------------------------------------------------------------ *)

\* the inner loop over the columns of one key: every column takes its value
\* at the cursor and moves the cursor
RECURSIVE DeserializeKey(_, _, _, _, _)
DeserializeKey(span, columns, j, ptr, overread) ==
    IF j > Len(columns)
    THEN [columns |-> columns, ptr |-> ptr, overread |-> overread]
    ELSE LET r == deserializeAndInsertFromArena(columns[j].type, span, ptr)
         IN DeserializeKey(span,
                [columns EXCEPT ![j].column = Append(@, r.value)],
                j + 1, r.ptr, overread \/ r.overread)

\* the loop over ext::range(start, size) of the keys, from key idx on
\* (idx counts from 0).  status is "ok" when every key ended exactly at its
\* end, "mismatch" when the cursor of a key read inside the span did not, and
\* "overread" when a column read past the end of a key.
RECURSIVE DeserializeKeys(_, _, _, _)
DeserializeKeys(keys, idx, size, columns) ==
    IF idx >= size
    THEN [status |-> "ok", columns |-> columns]
    ELSE LET key == keys[idx + 1]
             r == DeserializeKey(key, columns, 1, 0, FALSE)
         IN IF r.overread
            THEN [status |-> "overread", columns |-> << >>]
            ELSE IF r.ptr # Len(key)
            THEN [status |-> "mismatch", columns |-> << >>]
            ELSE DeserializeKeys(keys, idx + 1, size, r.columns)

\* the exception fillKeyColumns throws
DecodeError == "DictionaryBlockInputStream: unable to deserialize data"

\* faulty variant: the loop skips the first key of the range
fillKeyColumns_SkipFirst(keys, start, size, dictionary_structure) ==
    DeserializeKeys(keys, start + 1, size,
        [j \in DOMAIN dictionary_structure.key |->
            ColumnWithTypeAndName(<< >>, dictionary_structure.key[j].type,
                                  dictionary_structure.key[j].name)])

\* fillKeyColumns(keys, start, size, dictionary_structure, columns): one empty
\* column per key sub-field, then every key of the range is deserialized
fillKeyColumns(keys, start, size, dictionary_structure) ==
    DeserializeKeys(keys, start, size,
        [j \in DOMAIN dictionary_structure.key |->
            ColumnWithTypeAndName(<< >>, dictionary_structure.key[j].type,
                                  dictionary_structure.key[j].name)])

(* ------------------------------------------------------------------ *)
(* fillBlock and its helpers                                           *)
(* ------------------------------------------------------------------ *)

\* faulty variant: the ids are emitted last to first
getColumnFromIds_Reversed(ids) ==
    [i \in 1..Len(ids) |-> ids[Len(ids) + 1 - i]]

\* getColumnFromIds: every id is inserted, as UInt64, into a fresh column.
\* Key is an unsigned integer type of at most 64 bits, so `UInt64 id` keeps
\* the value.
getColumnFromIds(ids) ==
    [i \in 1..Len(ids) |-> ids[i]]

\* the bulk lookup the getter performs: one value per input row.  by = "id":
\* (dictionary.*getter)(attribute.name, ids, container); by = "key":
\* (dictionary.*getter)(attribute.name, keys, data_types, container)
callGetter(by, ids, keys, data_types, attribute) ==
    IF by = "id"
    THEN [i \in 1..Len(ids) |-> DictGetById(attribute.name, ids[i])]
    ELSE IF keys = << >> THEN << >>
    ELSE [i \in 1..Len(keys[1]) |->
            DictGetByKey(attribute.name, [j \in DOMAIN keys |-> keys[j][i]])]

\* faulty variant: the size of the id array is used in both modes
ColumnVectorSize_IdsOnly(ids, keys) == Len(ids)

\* the size getColumnFromAttribute gives the ColumnVector it allocates
ColumnVectorSize(ids, keys) ==
    IF keys # << >> THEN Len(keys[1]) ELSE Len(ids)

\* getColumnFromAttribute: a ColumnVector of `size` rows that the getter fills
getColumnFromAttribute(by, ids, keys, data_types, attribute) ==
    LET size == ColumnVectorSize(ids, keys)
        got == callGetter(by, ids, keys, data_types, attribute)
    IN [i \in 1..size |-> IF i <= Len(got) THEN got[i] ELSE 0]

\* getColumnFromStringAttribute: an empty ColumnString that the getter fills
getColumnFromStringAttribute(by, ids, keys, data_types, attribute) ==
    callGetter(by, ids, keys, data_types, attribute)

\* what the dictionary was asked in one lookup
LookupCall(by, ids, keys, data_types, attribute) ==
    [attribute |-> attribute.name,
     getter |-> "get" \o attribute.underlying_type,
     by |-> by, ids |-> ids, keys |-> keys, data_types |-> data_types]

\* faulty variant: every attribute is looked up, whatever was requested
Requested_Always(names, name) == TRUE

\* names.find(name) != names.end()
Requested(names, name) == name \in names

\* faulty variant: a failed lookup is swallowed and the columns built so far returned
LookupThrows_Swallowed(columns, lookups, error) ==
    [outcome |-> "block", error |-> "", columns |-> columns, lookups |-> lookups]

\* a getter that throws: nothing in fillBlock or getBlock catches, so the
\* call ends with the dictionary's exception and the local columns are gone
LookupThrows(columns, lookups, error) ==
    [outcome |-> "error", error |-> error, columns |-> << >>, lookups |-> lookups]

\* the loop over structure.attributes, from attribute idx on.  fail.at is the
\* index of the attribute whose lookup the dictionary fails (0: none).
RECURSIVE AttributeLoop(_, _, _, _, _, _, _, _, _, _)
AttributeLoop(idx, structure, names, by, ids, keys, data_types, fail, columns, lookups) ==
    IF idx > Len(structure.attributes)
    THEN [outcome |-> "block", error |-> "", columns |-> columns, lookups |-> lookups]
    ELSE LET attribute == structure.attributes[idx]
             called == Append(lookups, LookupCall(by, ids, keys, data_types, attribute))
         IN IF ~Requested(names, attribute.name)
            THEN AttributeLoop(idx + 1, structure, names, by, ids, keys, data_types,
                               fail, columns, lookups)
            ELSE IF fail.at = idx
            THEN LookupThrows(columns, called, fail.error)
            ELSE LET column ==
                        IF attribute.underlying_type = "String"
                        THEN getColumnFromStringAttribute(by, ids, keys, data_types, attribute)
                        ELSE getColumnFromAttribute(by, ids, keys, data_types, attribute)
                 IN AttributeLoop(idx + 1, structure, names, by, ids, keys, data_types, fail,
                        Append(columns,
                               ColumnWithTypeAndName(column, attribute.type, attribute.name)),
                        called)

\* the columns fillBlock emits before the attribute loop: the id column, then
\* the requested key columns
LeadingColumns(structure, names, ids, keys) ==
    (IF structure.has_id /\ Requested(names, structure.id_name)
     THEN << ColumnWithTypeAndName(getColumnFromIds(ids), "UInt64", structure.id_name) >>
     ELSE << >>)
    \o SelectSeq(keys, LAMBDA key : Requested(names, key.name))

\* faulty variant: the attribute columns are emitted before the id and key columns
fillBlock_AttributesFirst(structure, by, column_names, ids, keys, fail) ==
    LET names == NameSet(column_names)
        r == AttributeLoop(1, structure, names, by, ids,
                           [j \in DOMAIN keys |-> keys[j].column],
                           [j \in DOMAIN keys |-> keys[j].type], fail, << >>, << >>)
    IN IF r.outcome = "block"
       THEN [r EXCEPT !.columns = @ \o LeadingColumns(structure, names, ids, keys)]
       ELSE r

\* fillBlock<Getter, StringGetter>(ids, keys); `by` stands for the getter
\* shapes the constructor chose (fillBlockFunction)
fillBlock(structure, by, column_names, ids, keys, fail) ==
    LET names == NameSet(column_names)
        key_columns == [j \in DOMAIN keys |-> keys[j].column]
        data_types == [j \in DOMAIN keys |-> keys[j].type]
    IN AttributeLoop(1, structure, names, by, ids, key_columns, data_types, fail,
                     LeadingColumns(structure, names, ids, keys), << >>)

(* ------------------------------------------------------------------ *)
(* getBlock                                                            *)
(* ------------------------------------------------------------------ *)

\* faulty variant: the window is taken one row too late
BlockIds_ShiftedByOne(ids, start, length, garbage) ==
    [i \in 1..length |->
        IF start + i + 1 <= Len(ids) THEN ids[start + i + 1] ELSE garbage]

\* PaddedPODArray<Key> block_ids(ids.begin() + start, ids.begin() + start + length):
\* the copy does not look at ids.end(); an element taken from behind the array
\* holds whatever lies there (garbage)
BlockIds(ids, start, length, garbage) ==
    [i \in 1..length |-> IF start + i <= Len(ids) THEN ids[start + i] ELSE garbage]

\* what the out-of-range copy of the ids may do on one run: fault, or read
\* some garbage; a copy inside the array has one outcome
NoUB == [fault |-> FALSE, garbage |-> 0]

UBChoices(ids, start, length) ==
    IF ids # << >> /\ start + length > Len(ids)
    THEN { [fault |-> TRUE, garbage |-> 0] }
            \cup { [fault |-> FALSE, garbage |-> g] : g \in GarbageIds }
    ELSE { NoUB }

\* a call that ends without a value because the process faulted
Faulted == [outcome |-> "fault", error |-> "", columns |-> << >>, lookups |-> << >>]

\* a call that ends with an exception raised before any lookup
Thrown(error) == [outcome |-> "error", error |-> error, columns |-> << >>, lookups |-> << >>]

\* getBlock(start, length) of a stream with the given members.  ub says what
\* the out-of-range copy of the ids does on this run: fault, or read garbage.
getBlock(structure, by, column_names, ids, key_columns, start, length, fail, ub) ==
    IF ids = << >>
    THEN IF \E j \in DOMAIN key_columns : cutOutOfBound(key_columns[j].column, start, length)
         THEN Thrown("ParameterOutOfBound")
         ELSE fillBlock(structure, by, column_names, << >>,
                  [j \in DOMAIN key_columns |->
                      ColumnWithTypeAndName(cut(key_columns[j].column, start, length),
                                            key_columns[j].type, key_columns[j].name)],
                  fail)
    ELSE IF start + length > Len(ids) /\ ub.fault
         THEN Faulted
         ELSE fillBlock(structure, by, column_names,
                        BlockIds(ids, start, length, ub.garbage), << >>, fail)

(* ------------------------------------------------------------------ *)
(* State                                                               *)
(* ------------------------------------------------------------------ *)

VARIABLES
    pc,            \* "init", "ready", "ctor_failed" (the constructor threw) or
                   \* "crashed" (the process faulted)
    structure,     \* dictionary->getStructure()
    by,            \* fillBlockFunction: the getter shapes, "id" or "key"
    column_names,  \* member column_names
    ids,           \* member ids
    key_columns,   \* member key_columns
    rows_count,    \* the row count handed to DictionaryBlockInputStreamBase
    keys_arg,      \* the keys argument of the key constructor (history)
    call,          \* the last constructor or getBlock call and how it ended
    decode_calls,  \* how often fillKeyColumns ran (history)
    stream_pos,    \* end of the windows the owning stream read so far, -1 once
                   \* a read failed (history)
    id_concat,     \* concatenation of the id columns of those windows (history)
    windows        \* number of non-empty windows among them (history)

vars == << pc, structure, by, column_names, ids, key_columns, rows_count,
           keys_arg, call, decode_calls, stream_pos, id_concat, windows >>

NoFail == [at |-> 0, error |-> ""]

\* what the dictionary may do during one call: answer every lookup, or fail
\* the lookup of one of the attributes the call asks for
FailChoices(st, names_arg) ==
    { NoFail } \cup
    { [at |-> idx, error |-> e] :
        idx \in { i \in DOMAIN st.attributes : st.attributes[i].name \in NameSet(names_arg) },
        e \in DictErrors }

CallRecord(op, start, length, fail, r) ==
    [op |-> op, start |-> start, length |-> length, fail |-> fail,
     outcome |-> r.outcome, error |-> r.error, columns |-> r.columns,
     lookups |-> r.lookups]

Init ==
    /\ pc = "init"
    /\ structure = IdStructure
    /\ by = "none"
    /\ column_names = << >>
    /\ ids = << >>
    /\ key_columns = << >>
    /\ rows_count = 0
    /\ keys_arg = << >>
    /\ call = CallRecord("none", 0, 0, NoFail,
                         [outcome |-> "none", error |-> "", columns |-> << >>,
                          lookups |-> << >>])
    /\ decode_calls = 0
    /\ stream_pos = 0
    /\ id_concat = << >>
    /\ windows = 0

\* DictionaryBlockInputStream(dictionary, max_block_size, ids, column_names)
ConstructFromIds(ids_arg, names_arg) ==
    /\ pc = "init"
    /\ pc' = "ready"
    /\ structure' = IdStructure
    /\ by' = "id"
    /\ column_names' = names_arg
    /\ ids' = ids_arg
    /\ rows_count' = Len(ids_arg)
    /\ call' = CallRecord("construct", 0, 0, NoFail,
                          [outcome |-> "ok", error |-> "", columns |-> << >>,
                           lookups |-> << >>])
    /\ UNCHANGED << key_columns, keys_arg, decode_calls, stream_pos, id_concat, windows >>

\* DictionaryBlockInputStream(dictionary, max_block_size, keys, column_names).
\* fault says what a read past the end of a key does on this run: the process
\* faults, or the read returns and the final cursor check throws.
ConstructFromKeys(keys, names_arg, fault) ==
    /\ pc = "init"
    /\ LET r == fillKeyColumns(keys, 0, Len(keys), KeyStructure)
           outcome == CASE r.status = "ok" -> "ok"
                        [] r.status = "mismatch" -> "error"
                        [] r.status = "overread" -> IF fault THEN "fault" ELSE "error"
           error == IF outcome = "error" THEN DecodeError ELSE ""
       IN /\ pc' = CASE outcome = "ok" -> "ready"
                     [] outcome = "error" -> "ctor_failed"
                     [] outcome = "fault" -> "crashed"
          /\ key_columns' = r.columns
          /\ call' = CallRecord("construct", 0, 0, NoFail,
                                [outcome |-> outcome, error |-> error,
                                 columns |-> << >>, lookups |-> << >>])
    /\ structure' = KeyStructure
    /\ by' = "key"
    /\ column_names' = names_arg
    /\ rows_count' = Len(keys)
    /\ keys_arg' = keys
    /\ decode_calls' = decode_calls + 1
    /\ UNCHANGED << ids, stream_pos, id_concat, windows >>

\* the id column of a block, << >> when it has none
IdColumnOf(columns) ==
    LET hit == SelectSeq(columns, LAMBDA c : c.name = "id")
    IN IF hit = << >> THEN << >> ELSE hit[1].column

\* one getBlock(start, length) call on the constructed stream
GetBlock(start, length, fail, ub) ==
    /\ pc = "ready"
    /\ LET r == getBlock(structure, by, column_names, ids, key_columns,
                         start, length, fail, ub)
       IN /\ call' = CallRecord("getBlock", start, length, fail, r)
          /\ pc' = IF r.outcome = "fault" THEN "crashed" ELSE "ready"
    /\ UNCHANGED << structure, by, column_names, ids, key_columns, rows_count,
                    keys_arg, decode_calls, stream_pos, id_concat, windows >>

\* the owning stream reads the next window: getBlock(stream_pos, length) with
\* stream_pos + length inside the rows, each window starting where the last
\* one ended
ReadWindow(length, fail) ==
    /\ pc = "ready"
    /\ stream_pos >= 0
    /\ stream_pos + length <= rows_count
    /\ LET r == getBlock(structure, by, column_names, ids, key_columns,
                         stream_pos, length, fail, NoUB)
       IN /\ call' = CallRecord("getBlock", stream_pos, length, fail, r)
          /\ pc' = "ready"
          /\ stream_pos' = IF r.outcome = "block" THEN stream_pos + length ELSE -1
          /\ id_concat' = IF r.outcome = "block"
                          THEN id_concat \o IdColumnOf(r.columns) ELSE << >>
          /\ windows' = IF r.outcome = "block" /\ length > 0 THEN windows + 1 ELSE windows
    /\ UNCHANGED << structure, by, column_names, ids, key_columns, rows_count,
                    keys_arg, decode_calls >>

\* a constructor runs once, on the stream that does not exist yet; getBlock
\* runs on the constructed stream
Next ==
    \/ /\ pc = "init"
       /\ \E ids_arg \in SeqsUpTo(IdDomain, MaxRows),
             names_arg \in SeqsUpTo(NameUniverse, MaxNames) :
             ConstructFromIds(ids_arg, names_arg)
    \/ /\ pc = "init"
       /\ \E keys \in SeqsUpTo(SpanDomain, MaxRows),
             names_arg \in SeqsUpTo(NameUniverse, MaxNames),
             fault \in BOOLEAN :
             ConstructFromKeys(keys, names_arg, fault)
    \/ /\ pc = "ready"
       /\ \E start \in 0..rows_count, length \in 0..(rows_count + 1),
             fail \in FailChoices(structure, column_names) :
             /\ start + length <= rows_count + 1
             /\ \E ub \in UBChoices(ids, start, length) :
                   GetBlock(start, length, fail, ub)

Spec == Init /\ [][Next]_vars

\* an id stream read to its end window by window
NextStream ==
    \/ /\ pc = "init"
       /\ \E ids_arg \in SeqsUpTo(IdDomain, MaxRows),
             names_arg \in SeqsUpTo(NameUniverse, MaxNames) :
             ConstructFromIds(ids_arg, names_arg)
    \/ /\ pc = "ready"
       /\ \E length \in 0..rows_count, fail \in FailChoices(structure, column_names) :
             ReadWindow(length, fail)

SpecStream == Init /\ [][NextStream]_vars

(* ------------------------------------------------------------------ *)
(* Vocabulary of the properties                                        *)
(* ------------------------------------------------------------------ *)

\* the last operation was a getBlock whose window lies inside the rows
InRange == call.op = "getBlock" /\ call.start + call.length <= rows_count

\* the last operation was a getBlock that returned a block
Returned == call.op = "getBlock" /\ call.outcome = "block"

\* name n occurs in the column_names the stream was built with
IsRequested(n) == \E i \in DOMAIN column_names : column_names[i] = n

\* the canonical column sequence of the structure: id, key sub-fields, attributes
CanonicalNames ==
    (IF structure.has_id THEN << structure.id_name >> ELSE << >>)
    \o [j \in DOMAIN structure.key |-> structure.key[j].name]
    \o [j \in DOMAIN structure.attributes |-> structure.attributes[j].name]

\* the names of the attributes of the structure that were requested, in
\* structure order
RequestedAttributes ==
    SelectSeq([j \in DOMAIN structure.attributes |-> structure.attributes[j].name],
              IsRequested)

\* the attribute names of the lookups of the last call, in call order
LookupNames == [i \in DOMAIN call.lookups |-> call.lookups[i].attribute]

\* s is an initial part of t
IsPrefix(s, t) == Len(s) <= Len(t) /\ s = SubSeq(t, 1, Len(s))

\* the window of the last call, taken from sequence q
Window(q) == SubSeq(q, call.start + 1, call.start + call.length)

\* the dictionary's value of attribute a for input row r (counted from 1)
ValueOfRow(a, r) ==
    IF by = "id"
    THEN DictGetById(a, ids[r])
    ELSE DictGetByKey(a, [j \in DOMAIN key_columns |-> key_columns[j].column[r]])

(* ------------------------------------------------------------------ *)
(* Properties                                                          *)
(* ------------------------------------------------------------------ *)

\* C1: every column of a block returned for a window inside the rows (id
\* column, key columns, numeric and string attribute columns, in either mode)
\* has exactly `length` rows.
C1_ColumnsHaveLengthRows ==
    (InRange /\ Returned) =>
        \A i \in DOMAIN call.columns : Len(call.columns[i].column) = call.length

\* a key-mode block of two rows that holds a key column and the numeric
\* attribute column
C1_Witness ==
    /\ InRange /\ Returned /\ by = "key" /\ call.length = 2
    /\ \E i \in DOMAIN call.columns : call.columns[i].name = "k2"
    /\ \E i \in DOMAIN call.columns : call.columns[i].name = "x"

\* C2: the column names of every returned block are the canonical sequence
\* (id, key sub-fields, attributes, each in structure order) with the names
\* that were not requested removed, whatever the order and duplication of the
\* request; a name outside the structure never appears.
C2_CanonicalColumnOrder ==
    Returned =>
        [i \in DOMAIN call.columns |-> call.columns[i].name]
            = SelectSeq(CanonicalNames, IsRequested)

\* a block of two columns that were requested in the opposite order
C2_Witness ==
    /\ Returned /\ Len(call.columns) = 2
    /\ column_names = << call.columns[2].name, call.columns[1].name >>

\* C3: when an id stream whose id column is requested has been read to its
\* end in increasing adjacent windows, the id columns of the blocks, put
\* together in call order, are the ids the stream was built from.
C3_IdColumnsConcatenateToIds ==
    (by = "id" /\ structure.has_id /\ IsRequested(structure.id_name)
        /\ stream_pos = rows_count) =>
        id_concat = ids

\* two different ids read in two non-empty windows
C3_Witness ==
    /\ by = "id" /\ IsRequested("id") /\ stream_pos = rows_count
    /\ windows = 2 /\ Len(ids) = 2 /\ ids[1] # ids[2]

\* C4: in a call whose window lies inside the rows every lookup is given the
\* window of the input and nothing else (by id: ids[start, start+length) and
\* no key columns; by key: rows [start, start+length) of all decoded key
\* columns with their declared types and no ids), and row i of every
\* attribute column of the block is the dictionary's value for row start + i.
C4_LookupsSeeTheWindow ==
    InRange =>
        /\ \A k \in DOMAIN call.lookups :
              LET l == call.lookups[k]
              IN /\ l.by = by
                 /\ IF by = "id"
                    THEN /\ l.ids = Window(ids)
                         /\ l.keys = << >>
                         /\ l.data_types = << >>
                    ELSE /\ l.ids = << >>
                         /\ l.keys = [j \in DOMAIN key_columns |->
                                         Window(key_columns[j].column)]
                         /\ l.data_types = [j \in DOMAIN structure.key |->
                                               structure.key[j].type]
        /\ Returned =>
              \A a \in DOMAIN structure.attributes :
                 IsRequested(structure.attributes[a].name) =>
                    \E c \in DOMAIN call.columns :
                       /\ call.columns[c].name = structure.attributes[a].name
                       /\ call.columns[c].type = structure.attributes[a].type
                       /\ Len(call.columns[c].column) = call.length
                       /\ \A i \in 1..call.length :
                             call.columns[c].column[i]
                                = ValueOfRow(structure.attributes[a].name, call.start + i)

\* an id-mode block for the window [1, 2) that holds the numeric attribute
C4_Witness ==
    /\ InRange /\ Returned /\ by = "id" /\ call.start = 1 /\ call.length = 1
    /\ \E c \in DOMAIN call.columns : call.columns[c].name = "x"

\* C5: a key constructor that is given a span which does not decode exactly
\* (stray bytes behind the sub-fields, or fewer bytes than they need) fails
\* with the decode error and leaves no key column; with spans that all decode
\* exactly it raises nothing.
C5_MalformedSpanIsDecodeError ==
    (by = "key" /\ call.op = "construct") =>
        IF \E i \in DOMAIN keys_arg : keys_arg[i] \notin GoodSpans
        THEN /\ pc = "ctor_failed"
             /\ call.outcome = "error"
             /\ call.error = DecodeError
             /\ key_columns = << >>
        ELSE pc = "ready" /\ call.outcome = "ok"

\* C6: with an empty column_names every block returned for a window inside
\* the rows has no column and still reports `length` rows.
C6_EmptyRequestKeepsRowCount ==
    (InRange /\ Returned /\ column_names = << >>) =>
        /\ call.columns = << >>
        /\ rows(call.columns) = call.length

\* C7: a getBlock call whose window ends behind the rows returns no block.
C7_OutOfRangeCallFails ==
    (call.op = "getBlock" /\ call.start + call.length > rows_count) =>
        call.outcome # "block"

\* C8: a key stream decodes its spans once, in the constructor: one column per
\* key sub-field in structure order, each of N rows, whose row i holds the
\* sub-field values span i serializes; getBlock decodes nothing and emits, for
\* every requested key sub-field, rows [start, start+length) of that column.
C8_KeysDecodedOnceThenCut ==
    (by = "key" /\ pc = "ready") =>
        /\ decode_calls = 1
        /\ Len(key_columns) = Len(structure.key)
        /\ \A j \in DOMAIN key_columns :
              /\ key_columns[j].name = structure.key[j].name
              /\ key_columns[j].type = structure.key[j].type
              /\ Len(key_columns[j].column) = Len(keys_arg)
        /\ \A i \in DOMAIN keys_arg :
              keys_arg[i] = SerializeKey(structure.key,
                                [j \in DOMAIN key_columns |-> key_columns[j].column[i]], 1)
        /\ (InRange /\ Returned) =>
              \A j \in DOMAIN key_columns :
                 IsRequested(key_columns[j].name) =>
                    \E c \in DOMAIN call.columns :
                       /\ call.columns[c].name = key_columns[j].name
                       /\ call.columns[c].type = key_columns[j].type
                       /\ call.columns[c].column = Window(key_columns[j].column)

\* two different spans, and a block for the window [1, 2) with the string
\* key column
C8_Witness ==
    /\ by = "key" /\ InRange /\ Returned
    /\ Len(keys_arg) = 2 /\ keys_arg[1] # keys_arg[2]
    /\ call.start = 1 /\ call.length = 1
    /\ \E c \in DOMAIN call.columns : call.columns[c].name = "k2"

\* C9 as stated: a constructor performs no lookup, and every getBlock call
\* whose window lies inside the rows performs exactly one lookup per requested
\* attribute, in structure order, and none for any other attribute.
C9_OneLookupPerRequestedAttribute ==
    /\ call.op = "construct" => call.lookups = << >>
    /\ InRange => LookupNames = RequestedAttributes

\* C9, amended: a constructor performs no lookup; a getBlock call that returns
\* a block has performed exactly one lookup per requested attribute, in
\* structure order; a getBlock call that fails has performed them for an
\* initial part of the requested attributes, which ends with the attribute
\* whose lookup failed when that is why the call failed.  No call looks up an
\* attribute that was not requested.
C9_LookupsUntilFailure ==
    /\ call.op = "construct" => call.lookups = << >>
    /\ Returned => LookupNames = RequestedAttributes
    /\ (call.op = "getBlock" /\ ~Returned) =>
          /\ IsPrefix(LookupNames, RequestedAttributes)
          /\ call.error \in DictErrors =>
                /\ LookupNames # << >>
                /\ LookupNames[Len(LookupNames)]
                      = structure.attributes[call.fail.at].name

\* both attributes requested, the lookup of the first one failed and the
\* second one was never asked for
C9_Witness ==
    /\ InRange /\ call.outcome = "error" /\ call.fail.at = 1
    /\ Len(RequestedAttributes) = 2 /\ Len(call.lookups) = 1

\* how a getBlock call may end: with a block that holds a column for every
\* requested column of the structure (of `length` rows when the window lies
\* inside the rows), and then no lookup failed; or with no block at all, and
\* then, when it was a lookup that failed, with the dictionary's own failure
CallIsAllOrNothing ==
    call.op = "getBlock" =>
        /\ call.outcome \in {"block", "error", "fault"}
        /\ call.outcome = "block" =>
              /\ call.fail.at = 0
              /\ \A k \in DOMAIN CanonicalNames :
                    IsRequested(CanonicalNames[k]) =>
                       \E c \in DOMAIN call.columns :
                          /\ call.columns[c].name = CanonicalNames[k]
                          /\ InRange => Len(call.columns[c].column) = call.length
        /\ call.outcome # "block" => call.columns = << >>
        /\ (call.fail.at # 0 /\ InRange) =>
              /\ call.outcome = "error"
              /\ call.error = call.fail.error

\* C10: every getBlock call returns a complete block or none; a failed lookup
\* fails the call with the dictionary's failure; and no call, failed or not,
\* changes the stream, so that later calls see the stream the constructor
\* left.
C10_AllOrNothingAndStateKept ==
    [][pc = "ready" =>
          /\ CallIsAllOrNothing'
          /\ << structure, by, column_names, ids, key_columns, rows_count >>'
                = << structure, by, column_names, ids, key_columns, rows_count >>]_vars

\* the second attribute's lookup failed after the first attribute's column
\* had been built
C10_Witness ==
    /\ InRange /\ call.outcome = "error" /\ call.fail.at = 2
    /\ call.length >= 1 /\ Len(call.lookups) = 2

====
